---- MODULE Spec2Model ----
(***************************************************************************)
(* The greedy partition scan of elusiv's compute-unit planning scripts:    *)
(*   optimization/optimize_distribution.py  find_optimal_distribution      *)
(*   optimization/miller_loop_rounds.py     the inline copy of the scan    *)
(* One behaviour is one run of the scan: the locals after lines 6-10 are   *)
(* the initial state, one pass of the while loop is one step (Accept or    *)
(* Close), and the code after the loop (final append and print) is Finish. *)
(***************************************************************************)
EXTENDS Integers, Sequences, FiniteSets, TLC

VARIABLES script, rounds_cus, start_cus, idle_cus, max,
          rounds, iterations, iteration_rounds, iteration_cus,
          pc, stdout

vars == <<script, rounds_cus, start_cus, idle_cus, max,
          rounds, iterations, iteration_rounds, iteration_cus, pc, stdout>>

(* ------------------------------ bounds --------------------------------- *)
\* longest cost sequence passed to find_optimal_distribution
MaxLen == 3
\* largest single step cost in the enumerated sequences
MaxCost == 3
\* largest effective capacity (MAX_CUS - SECURITY_PADDING - idle_cus)
MaxCap == 4
\* how far idle_cus may exceed MAX_CUS - SECURITY_PADDING (capacity < 0)
MaxDeficit == 1
\* largest start_cus
MaxStart == 3
\* window closings allowed beyond len(rounds_cus) before the model stops
\* following a scan that spins on a step it can never accept
MaxSpin == 2
\* largest raise of the effective capacity a call is compared against
MaxRaise == 2

(* ------------------- optimize_distribution.py constants ---------------- *)
MAX_CUS == 1000000
SECURITY_PADDING == 2000

(* -------------------- miller_loop_rounds.py constants ------------------ *)
MLR_MAX_CUS == 200000
MLR_SECURITY_PADDING == 5000
MLR_START_CUS == 0
MLR_IDLE_CUS == 2000

ate_rev_normalized ==
  <<1, 0, 1, 0, 0, 1, 0, 1, 1, 0, 0, 0, 1, 0, 0, 1,
    1, 0, 0, 1, 0, 0, 0, 0, 0, 1, 0, 0, 1, 0, 0, 1,
    1, 1, 0, 0, 0, 0, 1, 0, 1, 0, 0, 1, 0, 1, 1, 0,
    0, 1, 0, 0, 1, 1, 0, 0, 1, 0, 1, 0, 1, 0, 0, 0>>

adding_rounds_cus == <<12673, 23173, 15199, 27102, 12907, 12661>>
doubling_rounds_cus == <<13078, 16767, 25817, 15379, 15070, 5567>>
ell_rounds_cus == <<8000, 8000, 90000, 8000, 8000, 90000, 8000, 8000, 90000>>
square_in_place_cus == 90000
mul_by_char_cus == 18000

\* [0] * n
Zeros(n) == [k \in 1..n |-> 0]

\* the costs one pass of the stub loop appends; i is the 1-based position in
\* ate_rev_normalized (enumerate's i > 0 is i > 1 here)
StubRound(i) ==
  doubling_rounds_cus \o ell_rounds_cus
    \o <<IF i > 1 THEN square_in_place_cus ELSE 0>>
    \o (IF ate_rev_normalized[i] = 1
          THEN adding_rounds_cus \o ell_rounds_cus
          ELSE Zeros(Len(adding_rounds_cus)) \o Zeros(Len(ell_rounds_cus)))
    \o <<0>>

RECURSIVE StubLoop(_)
StubLoop(n) == IF n = 0 THEN <<>> ELSE StubLoop(n - 1) \o StubRound(n)

\* rounds_cus as miller_loop_rounds.py has built it when the scan starts
MLR_rounds_cus ==
  StubLoop(Len(ate_rev_normalized))
    \o <<mul_by_char_cus>> \o adding_rounds_cus \o ell_rounds_cus
    \o <<mul_by_char_cus>> \o adding_rounds_cus \o ell_rounds_cus

(* ----------------------------- the scan -------------------------------- *)
\* max = MAX_CUS - SECURITY_PADDING - idle_cus
EffectiveMax(raw, padding, idle) == raw - padding - idle

\* faulty variant of Fits: the comparison made strict
Fits_Strict(cus, next_cost, m) == cus + next_cost < m

\* if iteration_cus + next_cost <= max
Fits(cus, next_cost, m) == cus + next_cost <= m

\* faulty variant of AcceptBranch: iteration_rounds += 1 left out
AcceptBranch_NoCount(s, next_cost) ==
  [s EXCEPT !.rounds = @ + 1,
            !.iteration_cus = @ + next_cost]

\* faulty variant of AcceptBranch: iteration_cus += next_cost left out
AcceptBranch_NoCost(s, next_cost) ==
  [s EXCEPT !.rounds = @ + 1,
            !.iteration_rounds = @ + 1]

\* faulty variant of AcceptBranch: iteration_cus -= next_cost
AcceptBranch_Subtract(s, next_cost) ==
  [s EXCEPT !.rounds = @ + 1,
            !.iteration_rounds = @ + 1,
            !.iteration_cus = @ - next_cost]

\* the if-branch: the step joins the open window
AcceptBranch(s, next_cost) ==
  [s EXCEPT !.rounds = @ + 1,
            !.iteration_rounds = @ + 1,
            !.iteration_cus = @ + next_cost]

\* faulty variant of CloseBranch: the fresh window is charged start_cus again
CloseBranch_KeepOffset(s) ==
  [s EXCEPT !.iterations = Append(@, s.iteration_rounds),
            !.iteration_rounds = 0,
            !.iteration_cus = start_cus]

\* the else-branch: the open window is closed, a fresh one is opened
CloseBranch(s) ==
  [s EXCEPT !.iterations = Append(@, s.iteration_rounds),
            !.iteration_rounds = 0,
            !.iteration_cus = 0]

\* faulty variant of FinalAppend: an empty final window is not appended
FinalAppend_TrimZero(s) ==
  IF s.iteration_rounds = 0 THEN s.iterations
  ELSE Append(s.iterations, s.iteration_rounds)

\* iterations.append(iteration_rounds) after the loop
FinalAppend(s) == Append(s.iterations, s.iteration_rounds)

\* faulty variant of RemainingCUs: measured against the effective capacity
RemainingCUs_Effective(raw, cus) == max - cus

\* print("Remaining CUs: ", MAX_CUS - iteration_cus)
RemainingCUs(raw, cus) == raw - cus

\* the module-level constants the running script reads
RawCapacity == IF script = "miller_loop_rounds" THEN MLR_MAX_CUS ELSE MAX_CUS
Padding ==
  IF script = "miller_loop_rounds" THEN MLR_SECURITY_PADDING ELSE SECURITY_PADDING

Locals ==
  [rounds |-> rounds, iterations |-> iterations,
   iteration_rounds |-> iteration_rounds, iteration_cus |-> iteration_cus]

SetLocals(s) ==
  /\ rounds' = s.rounds
  /\ iterations' = s.iterations
  /\ iteration_rounds' = s.iteration_rounds
  /\ iteration_cus' = s.iteration_cus

\* the locals after lines 7-10
InitLocals(start) ==
  [rounds |-> 0, iterations |-> <<>>, iteration_rounds |-> 0,
   iteration_cus |-> start]

\* one pass of the while loop body
LoopBody(costs, m, s) ==
  IF Fits(s.iteration_cus, costs[s.rounds + 1], m)
    THEN AcceptBranch(s, costs[s.rounds + 1])
    ELSE CloseBranch(s)

\* the while loop run to its exit; like Close it stops following a scan that
\* has closed MaxSpin windows more than there are steps
RECURSIVE WhileLoop(_, _, _)
WhileLoop(costs, m, s) ==
  IF s.rounds >= Len(costs) \/ Len(s.iterations) >= Len(costs) + MaxSpin
    THEN s
    ELSE WhileLoop(costs, m, LoopBody(costs, m, s))

\* find_optimal_distribution as a function of its arguments: whether the
\* call returns, and the iterations list it prints when it does
find_optimal_distribution(costs, start, idle) ==
  LET m == EffectiveMax(MAX_CUS, SECURITY_PADDING, idle)
      s == WhileLoop(costs, m, InitLocals(start))
  IN  [returns |-> s.rounds >= Len(costs), iterations |-> FinalAppend(s)]

(* ------------------------------ inputs --------------------------------- *)
CostSequences == UNION {[1..n -> 0..MaxCost] : n \in 0..MaxLen}

\* the worked examples: exact fit, forced split, offset, oversized step
Examples ==
  { [costs |-> <<10, 10, 10>>, start |-> 0, cap |-> 30],
    [costs |-> <<10, 10, 10>>, start |-> 0, cap |-> 20],
    [costs |-> <<5, 5, 5>>, start |-> 18, cap |-> 20],
    [costs |-> <<5, 500, 5>>, start |-> 0, cap |-> 100] }

Inputs ==
  [costs : CostSequences, start : 0..MaxStart, cap : (0 - MaxDeficit)..MaxCap]
    \cup Examples

InitScan(name, costs, start, idle, raw, padding) ==
  /\ script = name
  /\ rounds_cus = costs
  /\ start_cus = start
  /\ idle_cus = idle
  /\ max = EffectiveMax(raw, padding, idle)
  /\ rounds = 0
  /\ iterations = <<>>
  /\ iteration_rounds = 0
  /\ iteration_cus = start
  /\ pc = "scan"
  /\ stdout = <<>>

\* a call find_optimal_distribution(rounds_cus, start_cus, idle_cus)
InitCall ==
  \E in \in Inputs :
    InitScan("optimize_distribution", in.costs, in.start,
             MAX_CUS - SECURITY_PADDING - in.cap, MAX_CUS, SECURITY_PADDING)

\* a run of miller_loop_rounds.py
InitScript ==
  InitScan("miller_loop_rounds", MLR_rounds_cus, MLR_START_CUS, MLR_IDLE_CUS,
           MLR_MAX_CUS, MLR_SECURITY_PADDING)

Init == InitCall \/ InitScript

(* ------------------------------ actions -------------------------------- *)
Accept ==
  /\ pc = "scan"
  /\ rounds < Len(rounds_cus)
  /\ Fits(iteration_cus, rounds_cus[rounds + 1], max)
  /\ SetLocals(AcceptBranch(Locals, rounds_cus[rounds + 1]))
  /\ UNCHANGED <<script, rounds_cus, start_cus, idle_cus, max, pc, stdout>>

Close ==
  /\ pc = "scan"
  /\ rounds < Len(rounds_cus)
  /\ ~Fits(iteration_cus, rounds_cus[rounds + 1], max)
  /\ Len(iterations) < Len(rounds_cus) + MaxSpin
  /\ SetLocals(CloseBranch(Locals))
  /\ UNCHANGED <<script, rounds_cus, start_cus, idle_cus, max, pc, stdout>>

Finish ==
  /\ pc = "scan"
  /\ rounds >= Len(rounds_cus)
  /\ iterations' = FinalAppend(Locals)
  /\ stdout' = <<[Iterations |-> iterations',
                  Count |-> Len(iterations'),
                  TotalRounds |-> Len(rounds_cus),
                  RemainingCUs |-> RemainingCUs(RawCapacity, iteration_cus)]>>
  /\ pc' = "done"
  /\ UNCHANGED <<script, rounds_cus, start_cus, idle_cus, max,
                 rounds, iteration_rounds, iteration_cus>>

Next == Accept \/ Close \/ Finish

Spec == Init /\ [][Next]_vars

(* ============================ properties =============================== *)
\* sum of s[lo..hi], by halving
RECURSIVE SumRange(_, _, _)
SumRange(s, lo, hi) ==
  IF lo > hi THEN 0
  ELSE IF lo = hi THEN s[lo]
  ELSE LET mid == (lo + hi) \div 2
       IN  SumRange(s, lo, mid) + SumRange(s, mid + 1, hi)

Sum(s) == SumRange(s, 1, Len(s))

\* rawCapacity - reservedMargin of the running call
EffCap == RawCapacity - Padding - idle_cus
ReservedMargin == Padding + idle_cus

InFunction == script = "optimize_distribution"

\* the closed windows followed by the open one (after Finish, the result)
Windows ==
  IF pc = "done" THEN iterations ELSE Append(iterations, iteration_rounds)

\* number of steps in the windows before window i
WindowOffset(w, i) == SumRange(w, 1, i - 1)

\* summed cost of the steps of window i of the window list w
WindowCost(w, i) ==
  SumRange(rounds_cus, WindowOffset(w, i) + 1, WindowOffset(w, i) + w[i])

\* window i's cumulative cost as the capacity rule counts it
ChargedCost(w, i) == WindowCost(w, i) + (IF i = 1 THEN start_cus ELSE 0)

HoldsOversized(w, i) ==
  \E k \in (WindowOffset(w, i) + 1)..(WindowOffset(w, i) + w[i]) :
    rounds_cus[k] > EffCap

\* C1 (Coverage): with a positive effective capacity, the steps assigned to
\* the closed windows and the open one are exactly the steps scanned so far,
\* and when the scan has finished the emitted window sizes add up to
\* len(rounds_cus).
C1_Coverage ==
  EffCap > 0 =>
    /\ Sum(Windows) = rounds
    /\ pc = "done" => /\ Sum(iterations) = Len(rounds_cus)
                      /\ stdout[1].Iterations = iterations
                      /\ stdout[1].TotalRounds = Sum(iterations)

C1_Witness ==
  /\ InFunction /\ pc = "done" /\ EffCap > 0
  /\ Len(rounds_cus) = 3 /\ Len(iterations) >= 2
  /\ Sum(iterations) = 3

\* C2 as claimed (Capacity): every window without an oversized step has
\* summed cost, plus start_cus for window 0, at most the effective capacity.
C2_CapacityAsClaimed ==
  (InFunction /\ EffCap > 0) =>
    \A i \in 1..Len(Windows) :
      ~HoldsOversized(Windows, i) => ChargedCost(Windows, i) <= EffCap

\* C2 as amended (Capacity): every window that holds at least one step has
\* summed cost, plus start_cus for window 0, at most the effective capacity;
\* so has every window when start_cus <= effective capacity.
C2_Capacity ==
  InFunction =>
    \A i \in 1..Len(Windows) :
      (Windows[i] >= 1 \/ (start_cus <= EffCap /\ EffCap > 0))
        => ChargedCost(Windows, i) <= EffCap

C2_Witness ==
  /\ InFunction /\ pc = "done" /\ EffCap > 0
  /\ start_cus > EffCap
  /\ Len(iterations) = 3 /\ iterations[1] = 0
  /\ ChargedCost(iterations, 2) = EffCap

\* C3 as claimed (Termination): with a positive effective capacity, a pass
\* that closes a window is followed by the assignment of a step, and the
\* scan ends after exactly len(rounds_cus) assignments.
C3_Termination ==
  [][ (EffCap > 0 /\ pc = "scan" /\ pc' = "scan"
         /\ Len(iterations') = Len(iterations) + 1)
        => iteration_cus' + rounds_cus'[rounds' + 1] <= EffCap' ]_vars

\* C4 as claimed (Oversized step): a step whose cost exceeds the effective
\* capacity, met in an otherwise-empty window, is admitted there as the
\* window's only step.
C4_OversizedStep ==
  [][ (InFunction /\ EffCap > 0 /\ pc = "scan" /\ rounds < Len(rounds_cus)
         /\ iterations # <<>> /\ iteration_rounds = 0
         /\ rounds_cus[rounds + 1] > EffCap)
        => (rounds' = rounds + 1 /\ iteration_rounds' = 1
              /\ iterations' = iterations) ]_vars

\* C5 as claimed (Invalid configuration): with effective capacity <= 0 no
\* step is scanned, no window is opened or appended, nothing is printed.
C5_InvalidConfiguration ==
  (InFunction /\ EffCap <= 0) =>
    /\ pc = "scan"
    /\ rounds = 0
    /\ iterations = <<>>
    /\ stdout = <<>>

\* the steps after position from split into exactly k consecutive windows
\* (empty ones allowed), each of summed cost <= cap, the first charged offset
RECURSIVE CanSplit(_, _, _, _, _)
CanSplit(costs, from, k, offset, cap) ==
  \E j \in from..Len(costs) :
    /\ SumRange(costs, from + 1, j) + offset <= cap
    /\ IF k = 1 THEN j = Len(costs) ELSE CanSplit(costs, j, k - 1, 0, cap)

C7_StartOffset ==
  /\ pc = "scan" =>
       iteration_cus = WindowCost(Windows, Len(Windows))
                         + (IF iterations = <<>> THEN start_cus ELSE 0)
  /\ (pc = "scan" /\ iteration_rounds = 0) =>
       iteration_cus = (IF iterations = <<>> THEN start_cus ELSE 0)
  /\ (EffCap > 0 /\ rounds_cus # <<>> /\ iterations # <<>>
        /\ start_cus + rounds_cus[1] > EffCap) => iterations[1] = 0
  /\ (InFunction /\ pc = "done" /\ rounds_cus = <<5, 5, 5>>
        /\ start_cus = 18 /\ EffCap = 20) => iterations = <<0, 3>>

C7_Witness ==
  /\ InFunction /\ pc = "done"
  /\ rounds_cus = <<5, 5, 5>> /\ start_cus = 18 /\ EffCap = 20
  /\ iterations = <<0, 3>>

\* C8 (Monotonic greediness): when a call with positive effective capacity
\* returns, the same call with one step cost lowered, or with idle_cus
\* lowered (effective capacity raised), returns with no more windows.
C8_Monotonic ==
  (InFunction /\ pc = "done" /\ EffCap > 0) =>
    /\ \A i \in 1..Len(rounds_cus) : \A c \in 0..(rounds_cus[i] - 1) :
         LET r == find_optimal_distribution(
                    [rounds_cus EXCEPT ![i] = c], start_cus, idle_cus)
         IN  r.returns /\ Len(r.iterations) <= stdout[1].Count
    /\ \A d \in 1..MaxRaise :
         LET r == find_optimal_distribution(rounds_cus, start_cus, idle_cus - d)
         IN  r.returns /\ Len(r.iterations) <= stdout[1].Count

C8_Witness ==
  /\ InFunction /\ pc = "done" /\ EffCap > 0
  /\ stdout[1].Count = 3
  /\ \E i \in 1..Len(rounds_cus) :
       /\ rounds_cus[i] > 0
       /\ Len(find_optimal_distribution(
                [rounds_cus EXCEPT ![i] = 0], start_cus, idle_cus).iterations) = 2
  /\ Len(find_optimal_distribution(
            rounds_cus, start_cus, idle_cus - 1).iterations) < 3

\* C9 (Final window): the result always ends with the window open at the
\* end of the scan; that last window is empty only for an empty cost
\* sequence, whose result is the single window [0].
C9_FinalWindow ==
  pc = "done" =>
    /\ Len(iterations) >= 1
    /\ iterations[Len(iterations)] = iteration_rounds
    /\ rounds_cus = <<>> => iterations = <<0>>
    /\ rounds_cus # <<>> => iterations[Len(iterations)] >= 1

C9_Witness ==
  /\ InFunction /\ pc = "done"
  /\ rounds_cus # <<>>
  /\ Len(iterations) = 2 /\ iterations[1] = 0 /\ iterations[2] >= 1

\* cumulative cost of the final window of a finished scan
FinalWindowCost == ChargedCost(iterations, Len(iterations))

\* C10 as claimed (Remaining capacity): the printed remaining capacity is
\* the effective capacity minus the cumulative cost of the final window.
C10_RemainingAsClaimed ==
  pc = "done" => stdout[1].RemainingCUs = EffCap - FinalWindowCost

\* C10 as amended (Remaining capacity): the printed remaining capacity is
\* the raw capacity MAX_CUS minus the cumulative cost of the final window,
\* that is the unused effective capacity plus the reserved margin, and it
\* is at least the reserved margin when the final window holds a step.
C10_Remaining ==
  pc = "done" =>
    /\ stdout[1].RemainingCUs = RawCapacity - FinalWindowCost
    /\ stdout[1].RemainingCUs = (EffCap - FinalWindowCost) + ReservedMargin
    /\ iterations[Len(iterations)] >= 1 =>
         stdout[1].RemainingCUs >= ReservedMargin

C10_Witness ==
  /\ InFunction /\ pc = "done"
  /\ rounds_cus = <<10, 10, 10>> /\ start_cus = 0 /\ EffCap = 20
  /\ iterations = <<2, 1>>
  /\ stdout[1].RemainingCUs = MAX_CUS - 10

====
